---- MODULE Spec2Model ----
(***************************************************************************)
(* vnaiscan: the secure tar extraction engine (internal/extractor) and the *)
(* scan orchestration (internal/scanner), as state machines.               *)
(*                                                                         *)
(* Strings that the code inspects character by character (entry names,     *)
(* destination paths) are sequences of one-character strings.  A path the  *)
(* operating system resolves is the sequence of its segments.  Sizes are   *)
(* counted in KiB so that the 10 GiB cap fits the checker's integers.      *)
(***************************************************************************)
EXTENDS Integers, Sequences, FiniteSets, TLC

VARIABLES
    fs,          \* the host file system: segment path -> [kind, perm, size]
    xpc,         \* SafeExtract: "reading" | "extracted" | "failed" | "readable"
    xerr,        \* SafeExtract's return value: "nil" or the error's origin
    header,      \* of the header tr.Next() returned last: its type flag, whether its
                 \* cleaned name has a ".." segment, its size and the bytes present
    nread,       \* number of headers read so far
    unreadTrunc, \* the stream ends inside the body tr.Next() still has to skip
    euidRoot,    \* the scanning process runs as root (permission checks bypassed)
    touched,     \* history: paths handed to a creating/modifying system call
    wrote,       \* history: full path -> the regular-file entry last opened there
    decl,        \* history: cleaned relative path -> the entry last declared there
    plain,       \* history: every entry so far is a file or directory without ".."
    opened,      \* history: the path extractFile opened in the last turn, <<>> if none
    corrupt,     \* history: the reader has met a malformed header or an early end
    target       \* history: the sanitized path of the entry of the last turn, <<>> if none

xvars == <<fs, xpc, xerr, header, nread, unreadTrunc, euidRoot, touched, wrote, decl, plain,
           opened, corrupt, target>>

VARIABLES
    opts,        \* ScanOptions: the three skip flags
    rpc,         \* Scanner.Run: the statement it is at
    runErr,      \* what Run returns: "none" while running, then "nil" or the error
    ctxDone,     \* the context Run was given has been cancelled
    gctxDone,    \* the errgroup's context has been cancelled
    tpc,         \* each tool runner: the statement it is at
    tctx,        \* each runner's ctx.Err(): "nil", "deadline" or "canceled"
    proc,        \* each tool's analysis process
    cmdErr,      \* each runner's err from running the command
    ret,         \* what each runner returned: "none", "nil" or "error"
    tools,       \* s.results.Tools: tool name -> ToolResult
    results,     \* s.results: Status, Score and Partial
    atExit,      \* history: how each tool's process ended and ctx.Err() at that moment
    workDir,     \* s.workDir on disk: "none", "exists" or "removed"
    findings,    \* what each tool's analysis of the image writes to its output file
    engine,      \* history: the container-engine commands issued for the image
    mu,          \* s.mu: "free" or the runner that holds it
    osExit,      \* <<the exit status of the vnaiscan process>>, <<>> while it runs
    exitCode     \* <<what s.ExitCode() returned>>, <<>> if it was not called

svars == <<opts, rpc, runErr, ctxDone, gctxDone, tpc, tctx, proc, cmdErr, ret, tools, results,
           atExit, workDir, findings, engine, mu, osExit, exitCode>>

vars == <<xvars, svars>>

----------------------------------------------------------------------------
(* Bounds *)

MaxEntries == 2

\* the largest score graded
MaxScore == 120

----------------------------------------------------------------------------
(* Bit operations on permission words *)

RECURSIVE BitAnd(_, _)
BitAnd(a, b) ==
    IF a = 0 \/ b = 0 THEN 0
    ELSE (a % 2) * (b % 2) + 2 * BitAnd(a \div 2, b \div 2)

RECURSIVE BitOr(_, _)
BitOr(a, b) ==
    IF a = 0 THEN b
    ELSE IF b = 0 THEN a
    ELSE (IF a % 2 = 1 \/ b % 2 = 1 THEN 1 ELSE 0) + 2 * BitOr(a \div 2, b \div 2)

\* x has no bit outside y
BitSubset(x, y) == BitAnd(x, y) = x

----------------------------------------------------------------------------
(* Strings: package strings and path/filepath on sequences of characters *)

SEP == "/"

\* strings.HasPrefix
HasPrefix(s, prefix) ==
    /\ Len(prefix) <= Len(s)
    /\ SubSeq(s, 1, Len(prefix)) = prefix

\* strings.TrimPrefix
TrimPrefix(s, prefix) ==
    IF HasPrefix(s, prefix) THEN SubSeq(s, Len(prefix) + 1, Len(s)) ELSE s

\* strings.Contains
Contains(s, substr) ==
    \E i \in 1..(Len(s) - Len(substr) + 1) : SubSeq(s, i, i + Len(substr) - 1) = substr

\* The segments of a string between separators (empty segments included).
RECURSIVE Split(_)
Split(s) ==
    IF \A i \in 1..Len(s) : s[i] # SEP THEN <<s>>
    ELSE LET i == CHOOSE k \in 1..Len(s) : s[k] = SEP /\ \A j \in 1..(k - 1) : s[j] # SEP
         IN  <<SubSeq(s, 1, i - 1)>> \o Split(SubSeq(s, i + 1, Len(s)))

\* Segments joined by the separator.
RECURSIVE JoinSegs(_)
JoinSegs(segs) ==
    IF segs = <<>> THEN <<>>
    ELSE IF Len(segs) = 1 THEN segs[1]
    ELSE segs[1] \o <<SEP>> \o JoinSegs(Tail(segs))

DOT == <<".">>
DOTDOT == <<".", ".">>

\* filepath.Clean's pass over the segments: empty and "." segments are dropped,
\* ".." removes the segment before it, is dropped at the root of a rooted path
\* and is kept at the front of a relative one.
RECURSIVE CleanSegs(_, _, _)
CleanSegs(segs, out, rooted) ==
    IF segs = <<>> THEN out
    ELSE LET seg == Head(segs)
             rest == Tail(segs)
         IN  IF seg = <<>> \/ seg = DOT THEN CleanSegs(rest, out, rooted)
             ELSE IF seg = DOTDOT
                  THEN IF Len(out) > 0 /\ out[Len(out)] # DOTDOT
                       THEN CleanSegs(rest, SubSeq(out, 1, Len(out) - 1), rooted)
                       ELSE IF rooted THEN CleanSegs(rest, out, rooted)
                       ELSE CleanSegs(rest, Append(out, seg), rooted)
             ELSE CleanSegs(rest, Append(out, seg), rooted)

\* filepath.Clean
Clean(path) ==
    IF path = <<>> THEN DOT
    ELSE LET rooted == path[1] = SEP
             out == CleanSegs(Split(path), <<>>, rooted)
         IN  IF rooted THEN <<SEP>> \o JoinSegs(out)
             ELSE IF out = <<>> THEN DOT
             ELSE JoinSegs(out)

\* filepath.Join of two elements: empty elements are ignored, the result is cleaned.
Join(a, b) ==
    IF a = <<>> /\ b = <<>> THEN <<>>
    ELSE IF b = <<>> THEN Clean(a)
    ELSE IF a = <<>> THEN Clean(b)
    ELSE Clean(a \o <<SEP>> \o b)

\* filepath.Dir: everything before the last separator, cleaned.
Dir(path) ==
    IF \A i \in 1..Len(path) : path[i] # SEP THEN DOT
    ELSE LET i == CHOOSE k \in 1..Len(path) :
                      path[k] = SEP /\ \A j \in (k + 1)..Len(path) : path[j] # SEP
         IN  Clean(SubSeq(path, 1, i))

\* The operating system's reading of a cleaned absolute path: its segments.
RECURSIVE NonEmpty(_)
NonEmpty(segs) ==
    IF segs = <<>> THEN <<>>
    ELSE IF Head(segs) = <<>> THEN NonEmpty(Tail(segs))
    ELSE <<Head(segs)>> \o NonEmpty(Tail(segs))

Resolve(path) == NonEmpty(Split(path))

----------------------------------------------------------------------------
(* archive/tar: the headers the reader hands to SafeExtract *)

TypeReg == "0"
TypeLink == "1"
TypeSymlink == "2"
TypeChar == "3"
TypeBlock == "4"
TypeDir == "5"
TypeFifo == "6"
TypeCont == "7"
TypeXGlobalHeader == "g"
TypeGNUSparse == "S"

RejectedTypes == {TypeSymlink, TypeLink, TypeChar, TypeBlock, TypeFifo}
OtherTypes == {TypeCont, TypeXGlobalHeader, TypeGNUSparse}

\* const maxFileSize = 10 * 1024 * 1024 * 1024 bytes, here in KiB
maxFileSize == 10 * 1024 * 1024

\* the destination root SafeExtract is given (s.rootfsDir, absolute and clean)
dstDir == <<"/", "r">>

\* a host file next to the destination root
hostFile == <<"/", "a">>

Names ==
    { <<"a">>,
      <<"b">>,
      <<"a", "/", "a">>,
      <<"/", "a">>,
      <<".", "/", "a">>,
      <<"a", "/">>,
      <<"/", "/", "a">>,
      <<".">>,
      <<"/">>,
      <<>>,
      <<".", ".">>,
      <<".", ".", "/", "a">>,
      <<"a", "/", ".", ".", "/", "a">>,
      <<"a", "/", ".", ".", "/", ".", ".", "/", "a">>,
      <<"/", ".", ".", "/", "a">>,
      <<"a", ".", ".", "a">>,
      <<".", ".", "a">>,
      <<"a", "/", ".", ".">>,
      <<".", ".", "/", "r", "/", "a">>,
      <<"a", "/", ".", "/", "a">>,
      <<".", ".", ".">>,
      <<".", ".", "/", ".", ".">> }

\* names whose entries are read with every mode and body
FileNames == { <<"a">>, <<"a", "/", "a">> }

Modes == { 0, \o444, \o640, \o4751, \o7777 }

\* declared size and the bytes of it the stream really holds
Bodies ==
    { [Size |-> 0, Avail |-> 0],
      [Size |-> 1, Avail |-> 1],
      [Size |-> 1, Avail |-> 0],
      [Size |-> maxFileSize, Avail |-> maxFileSize],
      [Size |-> maxFileSize + 1, Avail |-> maxFileSize + 1],
      [Size |-> maxFileSize + 1, Avail |-> maxFileSize] }

Hdr(n, t, m, b) ==
    [Name |-> n, Typeflag |-> t, Mode |-> m, Size |-> b.Size, Avail |-> b.Avail]

Entries ==
    {Hdr(n, TypeReg, \o644, [Size |-> 1, Avail |-> 1]) : n \in Names}
    \cup {Hdr(n, TypeReg, m, b) : n \in FileNames, m \in Modes, b \in Bodies}
    \cup {Hdr(n, TypeDir, \o755, [Size |-> 0, Avail |-> 0]) : n \in Names}
    \cup {Hdr(n, t, \o777, [Size |-> 0, Avail |-> 0]) :
              n \in Names, t \in RejectedTypes \cup OtherTypes}

NoHeader == [Typeflag |-> "none", DotDot |-> FALSE, Size |-> 0, Avail |-> 0]

----------------------------------------------------------------------------
(* The file system calls SafeExtract makes *)

Min(a, b) == IF a <= b THEN a ELSE b

DirNode == [kind |-> "dir", perm |-> \o755, size |-> 0]

\* the absolute path string of a segment path
PathString(p) == <<SEP>> \o JoinSegs(p)

Prefixes(p) == {SubSeq(p, 1, k) : k \in 0..Len(p)}

\* a directory creation that fails on a path that exists already, like os.Mkdir
MkdirAllExclusive(f, path) ==
    LET p == Resolve(path)
        missing == {q \in Prefixes(p) : q \notin DOMAIN f}
    IN  IF p \in DOMAIN f \/ \E q \in Prefixes(p) : q \in DOMAIN f /\ f[q].kind # "dir"
        THEN [fs |-> f, err |-> TRUE, made |-> {}]
        ELSE [fs |-> [q \in DOMAIN f \cup missing |-> IF q \in DOMAIN f THEN f[q] ELSE DirNode],
              err |-> FALSE,
              made |-> {PathString(q) : q \in missing}]

\* os.MkdirAll(path, 0755): nil when the path is a directory already, ENOTDIR when
\* it or an ancestor is not a directory, else every missing ancestor is made.
MkdirAll(f, path) ==
    LET p == Resolve(path)
        missing == {q \in Prefixes(p) : q \notin DOMAIN f}
    IN  IF \E q \in Prefixes(p) : q \in DOMAIN f /\ f[q].kind # "dir"
        THEN [fs |-> f, err |-> TRUE, made |-> {}]
        ELSE [fs |-> [q \in DOMAIN f \cup missing |-> IF q \in DOMAIN f THEN f[q] ELSE DirNode],
              err |-> FALSE,
              made |-> {PathString(q) : q \in missing}]

\* os.OpenFile(path, O_CREATE|O_WRONLY|O_TRUNC, 0600) below an existing parent:
\* EISDIR on a directory, EACCES on a file the caller may not write, else the
\* file is created with 0600 or truncated with its mode kept.
OpenFile(f, path, root) ==
    LET p == Resolve(path)
    IN  IF p \in DOMAIN f
        THEN IF f[p].kind # "file" THEN [fs |-> f, err |-> TRUE]
             ELSE IF ~root /\ BitAnd(f[p].perm, \o200) = 0 THEN [fs |-> f, err |-> TRUE]
             ELSE [fs |-> [f EXCEPT ![p].size = 0], err |-> FALSE]
        ELSE [fs |-> [q \in DOMAIN f \cup {p} |->
                         IF q = p THEN [kind |-> "file", perm |-> \o600, size |-> 0] ELSE f[q]],
              err |-> FALSE]

----------------------------------------------------------------------------
(* internal/extractor *)

\* sanitizePath's cleaned relative name: Clean, then the leading "/" and "./" trimmed
cleanName(name) == TrimPrefix(TrimPrefix(Clean(name), <<SEP>>), <<".", SEP>>)

\* sanitizePath without the ".." test
sanitizePathNoDotDot(name, dst) ==
    LET fullPath == Join(dst, cleanName(name))
    IN  IF ~HasPrefix(fullPath, dst \o <<SEP>>) /\ fullPath # dst
        THEN [path |-> <<>>, err |-> TRUE]
        ELSE [path |-> fullPath, err |-> FALSE]

\* sanitizePath without either test
sanitizePathNoCheck(name, dst) ==
    [path |-> Join(dst, cleanName(name)), err |-> FALSE]

sanitizePath(name, dst) ==
    LET clean == cleanName(name)
        fullPath == Join(dst, clean)
    IN  IF Contains(clean, DOTDOT)
        THEN [path |-> <<>>, err |-> TRUE]
        ELSE IF ~HasPrefix(fullPath, dst \o <<SEP>>) /\ fullPath # dst
        THEN [path |-> <<>>, err |-> TRUE]
        ELSE [path |-> fullPath, err |-> FALSE]

\* the bytes io.Copy moves with no limit on the reader
copyLimitNone(size) == size

\* the bytes io.Copy asks of io.LimitReader(tr, maxFileSize)
copyLimit(size) == Min(size, maxFileSize)

\* the final mode with no mask
finalModeUnmasked(mode) == mode

\* finalMode := os.FileMode(mode) & 0755
finalMode(mode) == BitAnd(mode, \o755)

\* extractFile: what it leaves on disk and what it returns.
\*   err: "nil", "mkdir", "open" or "copy";  opened: the file was created or truncated
extractFile(f, path, h, root) ==
    LET m == MkdirAll(f, Dir(path))
        o == OpenFile(m.fs, path, root)
        p == Resolve(path)
        limit == copyLimit(h.Size)
        n == Min(h.Avail, limit)
        copied == [o.fs EXCEPT ![p].size = n]
    IN  IF m.err
        THEN [fs |-> f, err |-> "mkdir", touched |-> {}, opened |-> FALSE]
        ELSE IF o.err
        THEN [fs |-> m.fs, err |-> "open", touched |-> m.made, opened |-> FALSE]
        ELSE IF h.Avail < limit
        THEN [fs |-> copied, err |-> "copy", touched |-> m.made \cup {path}, opened |-> TRUE]
        ELSE [fs |-> [copied EXCEPT ![p].perm = finalMode(h.Mode)],
              err |-> "nil", touched |-> m.made \cup {path}, opened |-> TRUE]

\* the branch of SafeExtract's loop body a type flag takes, with hard links
\* extracted like regular files
dispositionLinkAsFile(t) ==
    IF t = TypeLink THEN "file"
    ELSE IF t \in RejectedTypes THEN "skip"
    ELSE IF t = TypeDir THEN "dir"
    ELSE IF t = TypeReg THEN "file"
    ELSE "none"

\* the same, with every unlisted type extracted like a regular file
dispositionDefaultFile(t) ==
    IF t \in RejectedTypes THEN "skip"
    ELSE IF t = TypeDir THEN "dir"
    ELSE "file"

\* the branch of SafeExtract's loop body a type flag takes
disposition(t) ==
    IF t \in RejectedTypes THEN "skip"
    ELSE IF t = TypeDir THEN "dir"
    ELSE IF t = TypeReg THEN "file"
    ELSE "none"

\* sanitizePath(header.Name, dstDir) for every name of the model
sanitized == [n \in Names |-> sanitizePath(n, dstDir)]

\* One iteration of SafeExtract's loop on header h.
loopBody(f, h, root) ==
    LET sp == sanitized[h.Name]
        d == disposition(h.Typeflag)
        md == MkdirAll(f, sp.path)
        ef == extractFile(f, sp.path, h, root)
        none == [fs |-> f, err |-> "nil", touched |-> {}, opened |-> FALSE, path |-> <<>>]
    IN  IF sp.err THEN none
        ELSE IF d = "dir"
        THEN [fs |-> md.fs, err |-> IF md.err THEN "mkdir" ELSE "nil",
              touched |-> md.made, opened |-> FALSE, path |-> sp.path]
        ELSE IF d = "file"
        THEN [fs |-> ef.fs, err |-> ef.err, touched |-> ef.touched,
              opened |-> ef.opened, path |-> sp.path]
        ELSE none

\* a readability pass that makes every file readable by everybody
makeReadableForAll(f, root) ==
    [q \in DOMAIN f |->
        IF ~(q = Resolve(root) \/ (Len(q) > Len(Resolve(root))
                                   /\ SubSeq(q, 1, Len(Resolve(root))) = Resolve(root)))
        THEN f[q]
        ELSE IF f[q].kind = "dir" THEN [f[q] EXCEPT !.perm = BitOr(f[q].perm, \o500)]
        ELSE IF f[q].kind = "file" THEN [f[q] EXCEPT !.perm = BitOr(f[q].perm, \o444)]
        ELSE f[q]]

\* makeReadableForScan: u+rx on every directory and u+r on every regular file
\* at or below root; everything else is left alone.
makeReadableForScan(f, root) ==
    [q \in DOMAIN f |->
        IF ~(q = Resolve(root) \/ (Len(q) > Len(Resolve(root))
                                   /\ SubSeq(q, 1, Len(Resolve(root))) = Resolve(root)))
        THEN f[q]
        ELSE IF f[q].kind = "dir" THEN [f[q] EXCEPT !.perm = BitOr(f[q].perm, \o500)]
        ELSE IF f[q].kind = "file" THEN [f[q] EXCEPT !.perm = BitOr(f[q].perm, \o400)]
        ELSE f[q]]

----------------------------------------------------------------------------
(* History kept for the properties *)

EmptyFn == [x \in {} |-> 0]

Upd(f, k, v) == [x \in DOMAIN f \cup {k} |-> IF x = k THEN v ELSE f[x]]

\* the cleaned relative name has a ".." segment
HasDotDotSegment ==
    [n \in Names |->
        \E i \in 1..Len(Split(cleanName(n))) : Split(cleanName(n))[i] = DOTDOT]

\* the segments of a cleaned relative name ("." is the root itself)
RelSegs ==
    [n \in Names |-> IF cleanName(n) = DOT THEN <<>> ELSE Resolve(cleanName(n))]

IsPlain(h) == h.Typeflag \in {TypeReg, TypeDir} /\ ~HasDotDotSegment[h.Name]

----------------------------------------------------------------------------
(* internal/scanner: the state New() builds *)

ToolNames == {"trivy", "malcontent", "magika"}

\* the tools Run starts: the ones whose skip flag is not set
Enabled(o) ==
    {t \in ToolNames :
        \/ t = "trivy" /\ ~o.SkipTrivy
        \/ t = "malcontent" /\ ~o.SkipMalcontent
        \/ t = "magika" /\ ~o.SkipMagika}

\* Findings in a tool's output: counts by the categories of the scoring table
NoCounts ==
    [critical |-> 0, high |-> 0, medium |-> 0, low |-> 0, secrets |-> 0,
     behaviourHigh |-> 0, behaviourMedium |-> 0, suspicious |-> 0]

NoFindings == [t \in ToolNames |-> NoCounts]

\* the images scanned: one with nothing to report, one where trivy reports
\* one critical and two high vulnerabilities
Findings ==
    {NoFindings,
     [NoFindings EXCEPT !["trivy"] = [NoCounts EXCEPT !.critical = 1, !.high = 2]]}

NoExit == [how |-> "none", ctxErr |-> "nil"]

NoResults == [Status |-> "", Total |-> 0, Grade |-> "", Partial |-> FALSE]

\* the scanner before Run, for given options
ScannerNew(o) ==
    /\ opts = o
    /\ rpc = "start"
    /\ runErr = "none"
    /\ ctxDone = FALSE
    /\ gctxDone = FALSE
    /\ tpc = [t \in ToolNames |-> "idle"]
    /\ tctx = [t \in ToolNames |-> "nil"]
    /\ proc = [t \in ToolNames |-> "none"]
    /\ cmdErr = [t \in ToolNames |-> FALSE]
    /\ ret = [t \in ToolNames |-> "none"]
    /\ tools = EmptyFn
    /\ results = NoResults
    /\ atExit = [t \in ToolNames |-> NoExit]
    /\ workDir = "none"
    /\ engine = {}
    /\ mu = "free"
    /\ osExit = <<>>
    /\ exitCode = <<>>

ScannerIdle ==
    ScannerNew([SkipTrivy |-> FALSE, SkipMalcontent |-> FALSE, SkipMagika |-> FALSE])

----------------------------------------------------------------------------
(* SafeExtract as a state machine: one action per turn of its loop *)

HostFs ==
    Upd(Upd(Upd(EmptyFn, <<>>, DirNode), Resolve(dstDir), DirNode),
        Resolve(hostFile), [kind |-> "file", perm |-> \o644, size |-> 1])

ExtractInit ==
    /\ ScannerIdle
    /\ findings = NoFindings
    /\ fs = HostFs
    /\ xpc = "reading"
    /\ xerr = "nil"
    /\ header = NoHeader
    /\ nread = 0
    /\ unreadTrunc = FALSE
    /\ euidRoot \in BOOLEAN
    /\ touched = {}
    /\ wrote = EmptyFn
    /\ decl = EmptyFn
    /\ plain = TRUE
    /\ opened = <<>>
    /\ corrupt = FALSE
    /\ target = <<>>

\* tr.Next() returns a header and the loop body runs on it
NextEntry(h) ==
    /\ xpc = "reading"
    /\ ~unreadTrunc
    /\ nread < MaxEntries
    /\ LET r == loopBody(fs, h, euidRoot)
       IN  /\ fs' = r.fs
           /\ xerr' = r.err
           /\ xpc' = IF r.err = "nil" THEN "reading" ELSE "failed"
           /\ unreadTrunc' = (r.err = "nil" /\ h.Avail < h.Size)
           /\ touched' = touched \cup r.touched
           /\ wrote' = IF r.opened
                       THEN Upd(wrote, r.path, [Mode |-> h.Mode, Size |-> h.Size,
                                                Avail |-> h.Avail, done |-> r.err = "nil"])
                       ELSE wrote
           /\ opened' = IF r.opened THEN r.path ELSE <<>>
           /\ corrupt' = (r.err = "copy")
           /\ target' = r.path
    /\ header' = [Typeflag |-> h.Typeflag, DotDot |-> HasDotDotSegment[h.Name],
                  Size |-> h.Size, Avail |-> h.Avail]
    /\ nread' = nread + 1
    /\ plain' = (plain /\ IsPlain(h))
    /\ decl' = IF plain /\ IsPlain(h)
               THEN Upd(decl, RelSegs[h.Name],
                        [kind |-> IF h.Typeflag = TypeDir THEN "dir" ELSE "file",
                         Mode |-> h.Mode, Size |-> h.Size])
               ELSE EmptyFn
    /\ UNCHANGED <<euidRoot, svars>>

\* tr.Next() returns io.EOF: the loop ends and SafeExtract returns nil
NextEOF ==
    /\ xpc = "reading"
    /\ ~unreadTrunc
    /\ xpc' = "extracted"
    /\ xerr' = "nil"
    /\ UNCHANGED <<svars, fs, header, nread, unreadTrunc, euidRoot, touched, wrote, decl, plain,
                   opened, corrupt, target>>

\* a malformed header or an early end taken for the end of the archive
NextErrorAsEOF ==
    /\ xpc = "reading"
    /\ xpc' = "extracted"
    /\ xerr' = "nil"
    /\ corrupt' = TRUE
    /\ UNCHANGED <<svars, fs, header, nread, unreadTrunc, euidRoot, touched, wrote, decl, plain,
                   opened, target>>

\* tr.Next() returns another error (a malformed header, or the stream ending
\* inside the body it skips): SafeExtract returns it
NextError ==
    /\ xpc = "reading"
    /\ xpc' = "failed"
    /\ xerr' = "header"
    /\ corrupt' = TRUE
    /\ UNCHANGED <<svars, fs, header, nread, unreadTrunc, euidRoot, touched, wrote, decl, plain,
                   opened, target>>

\* pullAndExtract's readability pass, run once SafeExtract has returned nil
MakeReadable ==
    /\ xpc = "extracted"
    /\ fs' = makeReadableForScan(fs, dstDir)
    /\ xpc' = "readable"
    /\ UNCHANGED <<svars, xerr, header, nread, unreadTrunc, euidRoot, touched, wrote, decl, plain,
                   opened, corrupt, target>>

ExtractNext ==
    \/ \E h \in Entries : NextEntry(h)
    \/ NextEOF
    \/ NextError
    \/ MakeReadable

ExtractSpec == ExtractInit /\ [][ExtractNext]_vars

----------------------------------------------------------------------------
(* internal/scanner: Scanner.Run and the tool runners *)

\* a runner whose context exists and whose result is not yet decided
Live(t) == tpc[t] \in {"begin", "created", "running", "exited"}

\* a command that is abandoned, not killed, when its ctx ends
KilledByNone(done) == {}

\* exec.CommandContext: the tools whose process is killed when their ctx ends now
KilledBy(done) == {t \in done : tpc[t] = "running"}

\* The effect on the runners of the contexts of the tools in `done` ending
\* with error `why`: ctx.Err() is set, a running process is killed and
\* CombinedOutput/Run returns a non-nil err.  pcs: where the runners are otherwise.
CtxEnds(done, why, pcs) ==
    /\ tpc' = [t \in ToolNames |-> IF t \in KilledBy(done) THEN "exited" ELSE pcs[t]]
    /\ tctx' = [t \in ToolNames |-> IF t \in done THEN why ELSE tctx[t]]
    /\ proc' = [t \in ToolNames |-> IF t \in KilledBy(done) THEN "killed" ELSE proc[t]]
    /\ cmdErr' = [t \in ToolNames |-> IF t \in KilledBy(done) THEN TRUE ELSE cmdErr[t]]
    /\ atExit' = [t \in ToolNames |->
                     IF t \in KilledBy(done) THEN [how |-> "killed", ctxErr |-> why]
                     ELSE atExit[t]]

\* the runners a cancellation of the errgroup's context reaches
Cancellable == {t \in ToolNames : Live(t) /\ tctx[t] = "nil"}

\* the deferred os.RemoveAll(s.workDir), run when Run returns
RemoveAll(w) == IF w = "exists" THEN "removed" ELSE w

\* the removal deferred only after the rootfs directory has been made
RunBeginWorkDirLeak(outcome) ==
    IF outcome = "workdir" THEN "none" ELSE "exists"

\* Run: os.MkdirTemp fails and nothing is deferred, or it makes the directory
\* and the defer removes it when os.MkdirAll(rootfsDir) fails
RunBeginWorkDir(outcome) ==
    IF outcome = "workdir" THEN "none"
    ELSE IF outcome = "rootfs" THEN RemoveAll("exists")
    ELSE "exists"

\* Run: os.MkdirTemp and os.MkdirAll(rootfsDir)
RunBegin(outcome) ==
    /\ rpc = "start"
    /\ rpc' = IF outcome = "ok" THEN "pull" ELSE "done"
    /\ runErr' = IF outcome = "ok" THEN "none" ELSE outcome
    /\ workDir' = RunBeginWorkDir(outcome)
    /\ UNCHANGED <<xvars, engine, mu, osExit, exitCode, findings, opts, ctxDone, gctxDone, tpc, tctx, proc, cmdErr, ret, tools, results,
                   atExit>>

\* the steps at which pullAndExtract can fail
FailStages == {"pull", "inspect", "create", "start", "extract", "export"}

\* the container commands that also run the image
EngineOpsStart(stage) == {"pull", "inspect", "create", "start", "export", "rm"}

\* the docker commands pullAndExtract has issued when it returns having
\* failed at `stage`, or having succeeded ("ok"); the deferred `docker rm`
\* is registered once the container exists
EngineOps(stage) ==
    IF stage = "pull" THEN {"pull"}
    ELSE IF stage = "inspect" THEN {"pull", "inspect"}
    ELSE IF stage = "create" THEN {"pull", "inspect", "create"}
    ELSE {"pull", "inspect", "create", "export", "rm"}

\* Run: s.pullAndExtract(ctx) returns nil or an error (always an error once
\* ctx is cancelled: its commands do not start).  When SafeExtract fails
\* while `docker export` is blocked writing to the pipe nobody reads any
\* more, pullAndExtract stays in exportCmd.Wait().
PullAndExtract(ok) ==
    /\ rpc = "pull"
    /\ ok => ~ctxDone
    /\ \E stage \in (IF ok THEN {"ok"} ELSE FailStages), blocked \in BOOLEAN :
          /\ blocked => (stage = "extract" /\ ~ctxDone)
          /\ rpc' = IF ok THEN "fanout" ELSE IF blocked THEN "exportwait" ELSE "done"
          /\ runErr' = IF ok \/ blocked THEN "none" ELSE "pull/extract"
          /\ workDir' = IF ok \/ blocked THEN workDir ELSE RemoveAll(workDir)
          /\ engine' = IF blocked THEN EngineOps(stage) \ {"rm"} ELSE EngineOps(stage)
    /\ UNCHANGED <<xvars, mu, osExit, exitCode, findings, opts, ctxDone, gctxDone, tpc, tctx, proc, cmdErr, ret, tools, results,
                   atExit>>

\* pullAndExtract: exportCmd.Wait() returns after SafeExtract failed, once
\* the cancelled ctx has killed the blocked `docker export`; the deferred
\* `docker rm` runs and Run returns the error
ExportWaitReturns ==
    /\ rpc = "exportwait"
    /\ ctxDone
    /\ rpc' = "done"
    /\ runErr' = "pull/extract"
    /\ workDir' = RemoveAll(workDir)
    /\ engine' = engine \cup {"rm"}
    /\ UNCHANGED <<xvars, mu, osExit, exitCode, findings, opts, ctxDone, gctxDone, tpc, tctx,
                   proc, cmdErr, ret, tools, results, atExit>>

\* Run: errgroup.WithContext and one g.Go per tool that is not skipped; each
\* runner derives its context with the per-tool timeout
FanOut ==
    /\ rpc = "fanout"
    /\ rpc' = "wait"
    /\ gctxDone' = ctxDone
    /\ tpc' = [t \in ToolNames |-> IF t \in Enabled(opts) THEN "begin" ELSE tpc[t]]
    /\ tctx' = [t \in ToolNames |->
                   IF t \in Enabled(opts) /\ ctxDone THEN "canceled" ELSE tctx[t]]
    /\ UNCHANGED <<xvars, engine, mu, osExit, exitCode, findings, workDir, opts, runErr, ctxDone, proc, cmdErr, ret, tools, results, atExit>>

\* runMagika: os.Create(outputFile) fails and the runner returns the error;
\* the errgroup records it and cancels its context
CreateOutputFails ==
    /\ tpc["magika"] = "begin"
    /\ ret' = [ret EXCEPT !["magika"] = "error"]
    /\ gctxDone' = TRUE
    /\ CtxEnds(IF gctxDone THEN {} ELSE Cancellable \ {"magika"}, "canceled",
               [tpc EXCEPT !["magika"] = "returned"])
    /\ UNCHANGED <<xvars, engine, mu, osExit, exitCode, findings, workDir, opts, rpc, runErr, ctxDone, tools, results>>

\* runMagika: os.Create(outputFile) succeeds
CreateOutput ==
    /\ tpc["magika"] = "begin"
    /\ tpc' = [tpc EXCEPT !["magika"] = "created"]
    /\ UNCHANGED <<xvars, engine, mu, osExit, exitCode, findings, workDir, opts, rpc, runErr, ctxDone, gctxDone, tctx, proc, cmdErr, ret, tools,
                   results, atExit>>

\* a runner that runs the command again after it failed
StartCmdRetry(t, started) ==
    /\ \/ tpc[t] = IF t = "magika" THEN "created" ELSE "begin"
       \/ tpc[t] = "exited" /\ cmdErr[t]
    /\ started => tctx[t] = "nil"
    /\ tpc' = [tpc EXCEPT ![t] = IF started THEN "running" ELSE "exited"]
    /\ proc' = [proc EXCEPT ![t] = IF started THEN "running" ELSE "nostart"]
    /\ cmdErr' = [cmdErr EXCEPT ![t] = ~started]
    /\ atExit' = [atExit EXCEPT ![t] =
                     IF started THEN @ ELSE [how |-> "nostart", ctxErr |-> tctx[t]]]
    /\ UNCHANGED <<xvars, engine, mu, osExit, exitCode, findings, workDir, opts, rpc, runErr, ctxDone, gctxDone, tctx, ret, tools, results>>

\* cmd.CombinedOutput() / cmd.Run() starts the process, or fails to: the
\* program cannot be run, or ctx is done already
StartCmd(t, started) ==
    /\ tpc[t] = IF t = "magika" THEN "created" ELSE "begin"
    /\ started => tctx[t] = "nil"
    /\ tpc' = [tpc EXCEPT ![t] = IF started THEN "running" ELSE "exited"]
    /\ proc' = [proc EXCEPT ![t] = IF started THEN "running" ELSE "nostart"]
    /\ cmdErr' = [cmdErr EXCEPT ![t] = ~started]
    /\ atExit' = [atExit EXCEPT ![t] =
                     IF started THEN @ ELSE [how |-> "nostart", ctxErr |-> tctx[t]]]
    /\ UNCHANGED <<xvars, engine, mu, osExit, exitCode, findings, workDir, opts, rpc, runErr, ctxDone, gctxDone, tctx, ret, tools, results>>

\* the process exits by itself, with status zero or not
ProcExit(t, zero) ==
    /\ tpc[t] = "running"
    /\ tpc' = [tpc EXCEPT ![t] = "exited"]
    /\ proc' = [proc EXCEPT ![t] = IF zero THEN "exit0" ELSE "exitN"]
    /\ cmdErr' = [cmdErr EXCEPT ![t] = ~zero]
    /\ atExit' = [atExit EXCEPT ![t] =
                     [how |-> IF zero THEN "exit0" ELSE "exitN", ctxErr |-> tctx[t]]]
    /\ UNCHANGED <<xvars, engine, mu, osExit, exitCode, findings, workDir, opts, rpc, runErr, ctxDone, gctxDone, tctx, ret, tools, results>>

\* the per-tool timeout of context.WithTimeout elapses
DeadlineElapses(t) ==
    /\ Live(t)
    /\ tctx[t] = "nil"
    /\ CtxEnds({t}, "deadline", tpc)
    /\ UNCHANGED <<xvars, engine, mu, osExit, exitCode, findings, workDir, opts, rpc, runErr, ctxDone, gctxDone, ret, tools, results>>

\* the context given to Run is cancelled; the errgroup's context and the
\* runners' contexts are its children
CancelScan ==
    /\ ~ctxDone
    /\ rpc # "done"
    /\ ctxDone' = TRUE
    /\ gctxDone' = (gctxDone \/ rpc = "wait")
    /\ CtxEnds(Cancellable, "canceled", tpc)
    /\ UNCHANGED <<xvars, engine, mu, osExit, exitCode, findings, workDir, opts, rpc, runErr, ret, tools, results>>

\* getTrivyVersion / getMalcontentVersion / getMagikaVersion returns
VersionProbe(t) ==
    /\ tpc[t] = "exited"
    /\ tpc' = [tpc EXCEPT ![t] = "probed"]
    /\ UNCHANGED <<xvars, engine, mu, osExit, exitCode, findings, workDir, opts, rpc, runErr, ctxDone, gctxDone, tctx, proc, cmdErr, ret, tools,
                   results, atExit>>

\* the diagnostics a failed run can leave in ToolResult.Error: the captured
\* output (empty when nothing ran or nothing was printed), for magika the
\* error and the captured stderr
FailedErrors(t) ==
    IF t = "magika" THEN {"err+stderr"}
    ELSE IF proc[t] = "nostart" THEN {""}
    ELSE {"", "output"}

\* the ToolResult a runner builds from ctx.Err() and err
toolResult(t, e) ==
    IF tctx[t] = "deadline"
    THEN [Status |-> "timeout", Error |-> "scan timed out", OutputFile |-> ""]
    ELSE IF cmdErr[t]
    THEN [Status |-> "failed", Error |-> e, OutputFile |-> ""]
    ELSE [Status |-> "ok", Error |-> "", OutputFile |-> t]

\* the runner stores its ToolResult under its name, with s.mu held, and returns nil
Record(t, e) ==
    /\ tpc[t] = "probed"
    /\ e \in FailedErrors(t)
    /\ tools' = Upd(tools, t, toolResult(t, e))
    /\ tpc' = [tpc EXCEPT ![t] = "returned"]
    /\ ret' = [ret EXCEPT ![t] = "nil"]
    /\ UNCHANGED <<xvars, engine, mu, osExit, exitCode, findings, workDir, opts, rpc, runErr, ctxDone, gctxDone, tctx, proc, cmdErr, results, atExit>>

\* a join that returns as soon as one runner has returned
WaitFirst ==
    /\ rpc = "wait"
    /\ \E t \in Enabled(opts) : tpc[t] = "returned"
    /\ rpc' = "score"
    /\ gctxDone' = TRUE
    /\ UNCHANGED <<xvars, engine, mu, osExit, exitCode, findings, workDir, opts, runErr, ctxDone, tpc, tctx, proc, cmdErr, ret,
                   tools, results, atExit>>

\* Run: g.Wait() returns once every runner started has returned
Wait ==
    /\ rpc = "wait"
    /\ \A t \in Enabled(opts) : tpc[t] = "returned"
    /\ rpc' = "score"
    /\ gctxDone' = TRUE
    /\ UNCHANGED <<xvars, engine, mu, osExit, exitCode, findings, workDir, opts, runErr, ctxDone, tpc, tctx, proc, cmdErr, ret, tools, results, atExit>>

\* the grade with the thresholds taken as exclusive upper bounds
calculateGradeStrict(score) ==
    IF score < 10 THEN "A"
    ELSE IF score < 30 THEN "B"
    ELSE IF score < 60 THEN "C"
    ELSE IF score < 100 THEN "D"
    ELSE "F"

calculateGrade(score) ==
    IF score <= 10 THEN "A"
    ELSE IF score <= 30 THEN "B"
    ELSE IF score <= 60 THEN "C"
    ELSE IF score <= 100 THEN "D"
    ELSE "F"

\* every order in which `range s.results.Tools` may visit the keys in S
Orders(S) ==
    {o \in [1..Cardinality(S) -> S] : \A i, j \in 1..Cardinality(S) : i # j => o[i] # o[j]}

\* a tool loop in which each tool visited overwrites Partial
RECURSIVE toolLoopLast(_, _, _)
toolLoopLast(order, tr, acc) ==
    IF order = <<>> THEN acc
    ELSE LET tool == tr[Head(order)]
         IN  toolLoopLast(Tail(order), tr,
                 IF tool.Status = "ok"
                 THEN [acc EXCEPT !.toolsOk = @ + 1, !.Partial = FALSE]
                 ELSE IF tool.Status \in {"failed", "timeout"}
                 THEN [acc EXCEPT !.toolsFailed = @ + 1, !.Partial = TRUE]
                 ELSE acc)

\* calculateScore: `for _, tool := range s.results.Tools`, visiting the tools
\* in `order`; acc holds toolsOk, toolsFailed and s.results.Partial
RECURSIVE toolLoop(_, _, _)
toolLoop(order, tr, acc) ==
    IF order = <<>> THEN acc
    ELSE LET tool == tr[Head(order)]
         IN  toolLoop(Tail(order), tr,
                 IF tool.Status = "ok"
                 THEN [acc EXCEPT !.toolsOk = @ + 1]
                 ELSE IF tool.Status \in {"failed", "timeout"}
                 THEN [acc EXCEPT !.toolsFailed = @ + 1, !.Partial = TRUE]
                 ELSE acc)

\* calculateScore, statement by statement, the map visited in `order`
calculateScoreIn(order, tr, res) ==
    LET score == 0
        acc == toolLoop(order, tr, [toolsOk |-> 0, toolsFailed |-> 0, Partial |-> res.Partial])
        enabledTools == Len(order)
    IN  [Total |-> score,
         Grade |-> calculateGrade(score),
         Partial |-> acc.Partial,
         Status |-> IF enabledTools > 0 /\ acc.toolsOk = 0 THEN "ERROR"
                    ELSE IF score > 100 THEN "FAIL"
                    ELSE IF score > 30 \/ acc.Partial THEN "WARN"
                    ELSE "PASS"]

\* calculateScore with only Status failed making the result partial
calculateScoreFailedOnly(tr, res) ==
    LET score == 0
        toolsOk == Cardinality({t \in DOMAIN tr : tr[t].Status = "ok"})
        partial == res.Partial \/ \E t \in DOMAIN tr : tr[t].Status = "failed"
        enabledTools == Cardinality(DOMAIN tr)
    IN  [Total |-> score,
         Grade |-> calculateGrade(score),
         Partial |-> partial,
         Status |-> IF enabledTools > 0 /\ toolsOk = 0 THEN "ERROR"
                    ELSE IF score > 100 THEN "FAIL"
                    ELSE IF score > 30 \/ partial THEN "WARN"
                    ELSE "PASS"]

\* calculateScore on the results recorded in `tr`
calculateScore(tr, res) ==
    LET score == 0
        toolsOk == Cardinality({t \in DOMAIN tr : tr[t].Status = "ok"})
        partial == res.Partial \/ \E t \in DOMAIN tr : tr[t].Status \in {"failed", "timeout"}
        enabledTools == Cardinality(DOMAIN tr)
    IN  [Total |-> score,
         Grade |-> calculateGrade(score),
         Partial |-> partial,
         Status |-> IF enabledTools > 0 /\ toolsOk = 0 THEN "ERROR"
                    ELSE IF score > 100 THEN "FAIL"
                    ELSE IF score > 30 \/ partial THEN "WARN"
                    ELSE "PASS"]

\* Run: s.calculateScore()
CalculateScore ==
    /\ rpc = "score"
    /\ results' = calculateScore(tools, results)
    /\ rpc' = "report"
    /\ UNCHANGED <<xvars, engine, mu, osExit, exitCode, findings, workDir, opts, runErr, ctxDone, gctxDone, tpc, tctx, proc, cmdErr, ret, tools, atExit>>

\* Run: s.generateReport(), the summary and the return
GenerateReport(ok) ==
    /\ rpc = "report"
    /\ rpc' = "done"
    /\ runErr' = IF ~ok THEN "report"
                 ELSE IF results.Status = "FAIL" THEN "FAIL status"
                 ELSE "nil"
    /\ workDir' = RemoveAll(workDir)
    /\ UNCHANGED <<xvars, engine, mu, osExit, exitCode, findings, opts, ctxDone, gctxDone, tpc, tctx, proc, cmdErr, ret, tools, results,
                   atExit>>

\* an exit code that lets a WARN result pass
ExitCodeWarnPasses(st) ==
    IF st = "PASS" THEN 0
    ELSE IF st = "WARN" THEN 0
    ELSE IF st = "FAIL" THEN 2
    ELSE IF st = "ERROR" THEN 3
    ELSE 1

\* Scanner.ExitCode for the result Status st
ExitCode(st) ==
    IF st = "PASS" THEN 0
    ELSE IF st = "WARN" THEN 1
    ELSE IF st = "FAIL" THEN 2
    ELSE IF st = "ERROR" THEN 3
    ELSE 1

\* runScan and main once Run has returned: an error from Run is printed and
\* the process exits with status 1; otherwise it exits with s.ExitCode()
RunScanExit ==
    /\ rpc = "done"
    /\ osExit = <<>>
    /\ osExit' = IF runErr # "nil" THEN <<1>> ELSE <<ExitCode(results.Status)>>
    /\ exitCode' = IF runErr # "nil" THEN exitCode ELSE <<ExitCode(results.Status)>>
    /\ UNCHANGED <<xvars, engine, mu, findings, workDir, opts, rpc, runErr, ctxDone, gctxDone,
                   tpc, tctx, proc, cmdErr, ret, tools, results, atExit>>

Init ==
    /\ \E o \in [SkipTrivy : BOOLEAN, SkipMalcontent : BOOLEAN, SkipMagika : BOOLEAN] :
          ScannerNew(o)
    /\ findings \in Findings
    /\ fs = HostFs
    /\ xpc = "reading"
    /\ xerr = "nil"
    /\ header = NoHeader
    /\ nread = 0
    /\ unreadTrunc = FALSE
    /\ euidRoot = FALSE
    /\ touched = {}
    /\ wrote = EmptyFn
    /\ decl = EmptyFn
    /\ plain = TRUE
    /\ opened = <<>>
    /\ corrupt = FALSE
    /\ target = <<>>

Next ==
    \/ \E outcome \in {"ok", "workdir", "rootfs"} : RunBegin(outcome)
    \/ \E ok \in BOOLEAN : PullAndExtract(ok)
    \/ ExportWaitReturns
    \/ FanOut
    \/ CreateOutputFails
    \/ CreateOutput
    \/ \E t \in ToolNames, started \in BOOLEAN : StartCmd(t, started)
    \/ \E t \in ToolNames, zero \in BOOLEAN : ProcExit(t, zero)
    \/ \E t \in ToolNames : DeadlineElapses(t)
    \/ CancelScan
    \/ \E t \in ToolNames : VersionProbe(t)
    \/ \E t \in ToolNames, e \in {"", "output", "err+stderr"} : Record(t, e)
    \/ Wait
    \/ CalculateScore
    \/ \E ok \in BOOLEAN : GenerateReport(ok)
    \/ RunScanExit

Spec == Init /\ [][Next]_vars

\* the tool's program cannot be run at all: the version probe fails at once
CannotRun(t) == atExit[t] = [how |-> "nostart", ctxErr |-> "nil"]

\* What the scheduler and the clock guarantee: every statement of Run and of
\* the runners that can be executed is executed, and a per-tool deadline
\* elapses while its runner is still at work.  Nothing is assumed of the
\* external programs (they may never exit), of `docker export` blocked on its
\* pipe, or of a cancellation from outside.
Fairness ==
    /\ WF_vars(\E outcome \in {"ok", "workdir", "rootfs"} : RunBegin(outcome))
    /\ WF_vars(\E ok \in BOOLEAN : PullAndExtract(ok))
    /\ WF_vars(ExportWaitReturns)
    /\ WF_vars(FanOut)
    /\ WF_vars(CreateOutput \/ CreateOutputFails)
    /\ \A t \in ToolNames : WF_vars(\E started \in BOOLEAN : StartCmd(t, started))
    /\ \A t \in ToolNames : WF_vars(DeadlineElapses(t))
    /\ \A t \in ToolNames : WF_vars(CannotRun(t) /\ VersionProbe(t))
    /\ \A t \in ToolNames : WF_vars(\E e \in {"", "output", "err+stderr"} : Record(t, e))
    /\ WF_vars(Wait)
    /\ WF_vars(CalculateScore)
    /\ WF_vars(\E ok \in BOOLEAN : GenerateReport(ok))
    /\ WF_vars(RunScanExit)

LiveSpec == Init /\ [][Next]_vars /\ Fairness

----------------------------------------------------------------------------
(* Scanner.Run with pullAndExtract taken statement by statement: the docker
   commands, SafeExtract on the pipe of `docker export`, one loop turn per
   step, then the runner of one tool *)

\* pullAndExtract rests once it has returned, or while Run has not called it
PullAndExtractAtRest == rpc \notin {"pull", "extract", "exportwait"}

\* the scan of an image with trivy alone, run by an ordinary user
PipelineInit ==
    /\ ScannerNew([SkipTrivy |-> FALSE, SkipMalcontent |-> TRUE, SkipMagika |-> TRUE])
    /\ findings = NoFindings
    /\ fs = HostFs
    /\ xpc = "reading"
    /\ xerr = "nil"
    /\ header = NoHeader
    /\ nread = 0
    /\ unreadTrunc = FALSE
    /\ euidRoot = FALSE
    /\ touched = {}
    /\ wrote = EmptyFn
    /\ decl = EmptyFn
    /\ plain = TRUE
    /\ opened = <<>>
    /\ corrupt = FALSE
    /\ target = <<>>

\* the steps of pullAndExtract before SafeExtract is called
AcquireStages == {"pull", "inspect", "create", "start"}

\* an acquisition that goes on to the export when the digest cannot be read
AcquireLenient(stage) ==
    /\ rpc = "pull"
    /\ stage \in AcquireStages \cup {"ok"}
    /\ stage = "ok" => ~ctxDone
    /\ rpc' = IF stage \in {"ok", "inspect"} THEN "extract" ELSE "done"
    /\ runErr' = IF stage \in {"ok", "inspect"} THEN "none" ELSE "pull/extract"
    /\ workDir' = IF stage \in {"ok", "inspect"} THEN workDir ELSE RemoveAll(workDir)
    /\ engine' = IF stage = "ok" THEN EngineOps(stage) \ {"rm"} ELSE EngineOps(stage)
    /\ UNCHANGED <<xvars, mu, osExit, exitCode, findings, opts, ctxDone, gctxDone, tpc, tctx,
                   proc, cmdErr, ret, tools, results, atExit>>

\* pullAndExtract up to exportCmd.Start(): docker pull, inspect and create,
\* the deferred `docker rm`, StdoutPipe and Start.  It returns the error of
\* the step that fails (the deferred rm runs if the container exists), or
\* goes on to SafeExtract with `docker export` writing to the pipe.
Acquire(stage) ==
    /\ rpc = "pull"
    /\ stage \in AcquireStages \cup {"ok"}
    /\ stage = "ok" => ~ctxDone
    /\ rpc' = IF stage = "ok" THEN "extract" ELSE "done"
    /\ runErr' = IF stage = "ok" THEN "none" ELSE "pull/extract"
    /\ workDir' = IF stage = "ok" THEN workDir ELSE RemoveAll(workDir)
    /\ engine' = IF stage = "ok" THEN EngineOps(stage) \ {"rm"} ELSE EngineOps(stage)
    /\ UNCHANGED <<xvars, mu, osExit, exitCode, findings, opts, ctxDone, gctxDone, tpc, tctx,
                   proc, cmdErr, ret, tools, results, atExit>>

\* what `docker export` may write: read-only files and directories at a and
\* a/a, a file's body whole or cut short
ImageEntries ==
    {h \in Entries : /\ h.Name \in FileNames
                     /\ h.Typeflag \in {TypeReg, TypeDir}
                     /\ h.Mode \in {\o444, \o640, \o755}
                     /\ h.Size = IF h.Typeflag = TypeReg THEN 1 ELSE 0}

\* pullAndExtract: extractor.SafeExtract(stdout, rootfsDir), a loop turn on a header
ExtractEntry(h) == rpc = "extract" /\ NextEntry(h)

\* pullAndExtract: SafeExtract reads the end of the stream and returns nil
ExtractEOF == rpc = "extract" /\ NextEOF

\* pullAndExtract: SafeExtract returns the error of tr.Next() (the stream is
\* malformed, or `docker export` died or was killed before its end)
ExtractError == rpc = "extract" /\ NextError

\* a failure of SafeExtract that is logged and not returned
ExtractFailsIgnored(blocked) ==
    /\ rpc = "extract"
    /\ xpc = "failed"
    /\ blocked => ~ctxDone
    /\ rpc' = "fanout"
    /\ engine' = engine \cup {"rm"}
    /\ UNCHANGED <<xvars, mu, osExit, exitCode, findings, opts, ctxDone, gctxDone, tpc, tctx,
                   proc, cmdErr, ret, tools, results, atExit, runErr, workDir>>

\* pullAndExtract: SafeExtract returned an error: exportCmd.Wait(), which
\* blocks while `docker export` has output left that nobody reads, then the
\* error is returned, the deferred rm runs and Run returns
ExtractFails(blocked) ==
    /\ rpc = "extract"
    /\ xpc = "failed"
    /\ blocked => ~ctxDone
    /\ rpc' = IF blocked THEN "exportwait" ELSE "done"
    /\ runErr' = IF blocked THEN runErr ELSE "pull/extract"
    /\ workDir' = IF blocked THEN workDir ELSE RemoveAll(workDir)
    /\ engine' = IF blocked THEN engine ELSE engine \cup {"rm"}
    /\ UNCHANGED <<xvars, mu, osExit, exitCode, findings, opts, ctxDone, gctxDone, tpc, tctx,
                   proc, cmdErr, ret, tools, results, atExit>>

\* a return on the failure of the export that leaves the container
ExportFailsNoRm ==
    /\ rpc = "extract"
    /\ xpc = "extracted"
    /\ rpc' = "done"
    /\ runErr' = "pull/extract"
    /\ workDir' = RemoveAll(workDir)
    /\ UNCHANGED <<xvars, mu, osExit, exitCode, findings, opts, ctxDone, gctxDone, tpc, tctx,
                   proc, cmdErr, ret, tools, results, atExit, engine>>

\* pullAndExtract: SafeExtract returned nil and exportCmd.Wait() returns an
\* error (`docker export` exited non-zero or was killed); the deferred rm runs
ExportFails ==
    /\ rpc = "extract"
    /\ xpc = "extracted"
    /\ rpc' = "done"
    /\ runErr' = "pull/extract"
    /\ workDir' = RemoveAll(workDir)
    /\ engine' = engine \cup {"rm"}
    /\ UNCHANGED <<xvars, mu, osExit, exitCode, findings, opts, ctxDone, gctxDone, tpc, tctx,
                   proc, cmdErr, ret, tools, results, atExit>>

\* pullAndExtract: exportCmd.Wait() returns nil and makeReadableForScan runs
ExportDone == rpc = "extract" /\ MakeReadable

\* pullAndExtract returns nil: the deferred rm runs and Run goes on
ExtractReturns ==
    /\ rpc = "extract"
    /\ xpc = "readable"
    /\ rpc' = "fanout"
    /\ engine' = engine \cup {"rm"}
    /\ UNCHANGED <<xvars, mu, osExit, exitCode, findings, opts, ctxDone, gctxDone, tpc, tctx,
                   proc, cmdErr, ret, tools, results, atExit, runErr, workDir>>

PipelineNext ==
    \/ \E outcome \in {"ok", "workdir", "rootfs"} : RunBegin(outcome)
    \/ \E stage \in AcquireStages \cup {"ok"} : Acquire(stage)
    \/ \E h \in ImageEntries : ExtractEntry(h)
    \/ ExtractEOF
    \/ ExtractError
    \/ \E blocked \in BOOLEAN : ExtractFails(blocked)
    \/ ExportFails
    \/ ExportDone
    \/ ExtractReturns
    \/ ExportWaitReturns
    \/ FanOut
    \/ \E t \in ToolNames, started \in BOOLEAN : StartCmd(t, started)
    \/ \E t \in ToolNames, zero \in BOOLEAN : ProcExit(t, zero)
    \/ \E t \in ToolNames : DeadlineElapses(t)
    \/ CancelScan
    \/ \E t \in ToolNames : VersionProbe(t)
    \/ \E t \in ToolNames, e \in {"", "output", "err+stderr"} : Record(t, e)
    \/ Wait
    \/ CalculateScore
    \/ \E ok \in BOOLEAN : GenerateReport(ok)
    \/ RunScanExit

PipelineSpec == PipelineInit /\ [][PipelineNext]_vars

----------------------------------------------------------------------------
(* calculateGrade on every score: the Score literal of calculateScore, built
   for a score given as input *)

\* every tool has returned with the same status
ToolsAll(st) ==
    [t \in ToolNames |->
        [Status |-> st, Error |-> "", OutputFile |-> IF st = "ok" THEN t ELSE ""]]

\* Run is about to aggregate; results.Total holds the score to grade
GradeInit ==
    /\ opts = [SkipTrivy |-> FALSE, SkipMalcontent |-> FALSE, SkipMagika |-> FALSE]
    /\ rpc = "score"
    /\ runErr = "none"
    /\ ctxDone = FALSE
    /\ gctxDone = TRUE
    /\ tpc = [t \in ToolNames |-> "returned"]
    /\ tctx = [t \in ToolNames |-> "nil"]
    /\ \E st \in {"ok", "failed"} :
          /\ tools = ToolsAll(st)
          /\ proc = [t \in ToolNames |-> IF st = "ok" THEN "exit0" ELSE "exitN"]
          /\ cmdErr = [t \in ToolNames |-> st # "ok"]
          /\ atExit = [t \in ToolNames |->
                         [how |-> IF st = "ok" THEN "exit0" ELSE "exitN", ctxErr |-> "nil"]]
    /\ ret = [t \in ToolNames |-> "nil"]
    /\ \E score \in 0..MaxScore, partial \in BOOLEAN :
          results = [Status |-> "", Total |-> score, Grade |-> "", Partial |-> partial]
    /\ workDir = "exists"
    /\ findings = NoFindings
    /\ engine = EngineOps("ok")
    /\ mu = "free"
    /\ osExit = <<>>
    /\ exitCode = <<>>
    /\ fs = HostFs
    /\ xpc = "readable"
    /\ xerr = "nil"
    /\ header = NoHeader
    /\ nread = 0
    /\ unreadTrunc = FALSE
    /\ euidRoot = FALSE
    /\ touched = {}
    /\ wrote = EmptyFn
    /\ decl = EmptyFn
    /\ plain = TRUE
    /\ opened = <<>>
    /\ corrupt = FALSE
    /\ target = <<>>

\* calculateScore: s.results.Score = models.Score{Total: score, Grade: calculateGrade(score)}
ApplyGrade ==
    /\ rpc = "score"
    /\ results.Grade = ""
    /\ results' = [results EXCEPT !.Grade = calculateGrade(results.Total)]
    /\ UNCHANGED <<xvars, engine, mu, osExit, exitCode, findings, workDir, opts, rpc, runErr, ctxDone, gctxDone, tpc, tctx, proc,
                   cmdErr, ret, tools, atExit>>

GradeNext == ApplyGrade

GradeSpec == GradeInit /\ [][GradeNext]_vars

----------------------------------------------------------------------------
(* The runners' writes to s.results.Tools, statement by statement: every
   runner has built its ToolResult and is about to take s.mu *)

\* how each enabled tool's run ended
RunOutcomes == [ToolNames -> {"exit0", "exitN", "deadline"}]

MapInit ==
    /\ opts \in [SkipTrivy : BOOLEAN, SkipMalcontent : BOOLEAN, SkipMagika : BOOLEAN]
    /\ rpc = "wait"
    /\ runErr = "none"
    /\ ctxDone = FALSE
    /\ gctxDone = FALSE
    /\ \E out \in RunOutcomes :
          /\ tpc = [t \in ToolNames |-> IF t \in Enabled(opts) THEN "probed" ELSE "idle"]
          /\ tctx = [t \in ToolNames |->
                        IF t \in Enabled(opts) /\ out[t] = "deadline" THEN "deadline" ELSE "nil"]
          /\ proc = [t \in ToolNames |->
                        IF t \notin Enabled(opts) THEN "none"
                        ELSE IF out[t] = "deadline" THEN "killed" ELSE out[t]]
          /\ cmdErr = [t \in ToolNames |-> t \in Enabled(opts) /\ out[t] # "exit0"]
          /\ atExit = [t \in ToolNames |->
                          IF t \notin Enabled(opts) THEN NoExit
                          ELSE IF out[t] = "deadline"
                          THEN [how |-> "killed", ctxErr |-> "deadline"]
                          ELSE [how |-> out[t], ctxErr |-> "nil"]]
    /\ ret = [t \in ToolNames |-> "none"]
    /\ tools = EmptyFn
    /\ results = NoResults
    /\ workDir = "exists"
    /\ findings = NoFindings
    /\ engine = EngineOps("ok")
    /\ mu = "free"
    /\ osExit = <<>>
    /\ exitCode = <<>>
    /\ fs = HostFs
    /\ xpc = "readable"
    /\ xerr = "nil"
    /\ header = NoHeader
    /\ nread = 0
    /\ unreadTrunc = FALSE
    /\ euidRoot = FALSE
    /\ touched = {}
    /\ wrote = EmptyFn
    /\ decl = EmptyFn
    /\ plain = TRUE
    /\ opened = <<>>
    /\ corrupt = FALSE
    /\ target = <<>>

\* a Lock that does not wait for the holder
LockNoWait(t) ==
    /\ tpc[t] = "probed"
    /\ mu' = t
    /\ tpc' = [tpc EXCEPT ![t] = "locked"]
    /\ UNCHANGED <<xvars, engine, osExit, exitCode, findings, workDir, opts, rpc, runErr, ctxDone,
                   gctxDone, tctx, proc, cmdErr, ret, tools, results, atExit>>

\* s.mu.Lock(): blocks while another runner holds the mutex
Lock(t) ==
    /\ tpc[t] = "probed"
    /\ mu = "free"
    /\ mu' = t
    /\ tpc' = [tpc EXCEPT ![t] = "locked"]
    /\ UNCHANGED <<xvars, engine, osExit, exitCode, findings, workDir, opts, rpc, runErr, ctxDone,
                   gctxDone, tctx, proc, cmdErr, ret, tools, results, atExit>>

\* s.results.Tools[name] = result
Store(t, e) ==
    /\ tpc[t] = "locked"
    /\ e \in FailedErrors(t)
    /\ tools' = Upd(tools, t, toolResult(t, e))
    /\ tpc' = [tpc EXCEPT ![t] = "stored"]
    /\ UNCHANGED <<xvars, engine, mu, osExit, exitCode, findings, workDir, opts, rpc, runErr,
                   ctxDone, gctxDone, tctx, proc, cmdErr, ret, results, atExit>>

\* s.mu.Unlock() and return nil
Unlock(t) ==
    /\ tpc[t] = "stored"
    /\ mu' = "free"
    /\ tpc' = [tpc EXCEPT ![t] = "returned"]
    /\ ret' = [ret EXCEPT ![t] = "nil"]
    /\ UNCHANGED <<xvars, engine, osExit, exitCode, findings, workDir, opts, rpc, runErr, ctxDone,
                   gctxDone, tctx, proc, cmdErr, tools, results, atExit>>

MapNext ==
    \/ \E t \in ToolNames : Lock(t)
    \/ \E t \in ToolNames, e \in {"", "output", "err+stderr"} : Store(t, e)
    \/ \E t \in ToolNames : Unlock(t)

MapSpec == MapInit /\ [][MapNext]_vars

----------------------------------------------------------------------------
(* The verdict for every score: the rest of calculateScore for a score given
   as input, then the report, the return of Run and the exit of the process *)

\* a verdict that warns only above 60
overallStatusLate(score, tr, res) ==
    LET toolsOk == Cardinality({t \in DOMAIN tr : tr[t].Status = "ok"})
        partial == res.Partial \/ \E t \in DOMAIN tr : tr[t].Status \in {"failed", "timeout"}
        enabledTools == Cardinality(DOMAIN tr)
    IN  [Partial |-> partial,
         Status |-> IF enabledTools > 0 /\ toolsOk = 0 THEN "ERROR"
                    ELSE IF score > 100 THEN "FAIL"
                    ELSE IF score > 60 \/ partial THEN "WARN"
                    ELSE "PASS"]

\* calculateScore after the Score is stored: Partial and Status for `score`
overallStatus(score, tr, res) ==
    LET toolsOk == Cardinality({t \in DOMAIN tr : tr[t].Status = "ok"})
        partial == res.Partial \/ \E t \in DOMAIN tr : tr[t].Status \in {"failed", "timeout"}
        enabledTools == Cardinality(DOMAIN tr)
    IN  [Partial |-> partial,
         Status |-> IF enabledTools > 0 /\ toolsOk = 0 THEN "ERROR"
                    ELSE IF score > 100 THEN "FAIL"
                    ELSE IF score > 30 \/ partial THEN "WARN"
                    ELSE "PASS"]

\* calculateScore: the tool loop and the overall status, for the score graded
ApplyStatus ==
    /\ rpc = "score"
    /\ results.Grade # ""
    /\ results' = [results EXCEPT
                      !.Partial = overallStatus(results.Total, tools, results).Partial,
                      !.Status = overallStatus(results.Total, tools, results).Status]
    /\ rpc' = "report"
    /\ UNCHANGED <<xvars, engine, mu, osExit, exitCode, findings, workDir, opts, runErr, ctxDone,
                   gctxDone, tpc, tctx, proc, cmdErr, ret, tools, atExit>>

\* a caller reads s.ExitCode() once Run has returned
ExitCodeCall ==
    /\ rpc = "done"
    /\ exitCode = <<>>
    /\ exitCode' = <<ExitCode(results.Status)>>
    /\ UNCHANGED <<xvars, engine, mu, osExit, findings, workDir, opts, rpc, runErr, ctxDone,
                   gctxDone, tpc, tctx, proc, cmdErr, ret, tools, results, atExit>>

VerdictNext ==
    \/ ApplyGrade
    \/ ApplyStatus
    \/ \E ok \in BOOLEAN : GenerateReport(ok)
    \/ ExitCodeCall
    \/ RunScanExit

VerdictSpec == GradeInit /\ [][VerdictNext]_vars

----------------------------------------------------------------------------
(* Properties of the extraction engine, checked under ExtractSpec *)

RootSegs == Resolve(dstDir)

\* a segment path at or below the destination root
AtOrBelowRoot(q) ==
    Len(q) >= Len(RootSegs) /\ SubSeq(q, 1, Len(RootSegs)) = RootSegs

\* a path string that is the root or begins with root + separator
InsideRoot(p) == p = dstDir \/ HasPrefix(p, dstDir \o <<SEP>>)

\* this step is a turn of SafeExtract's loop on a header
EntryStep == nread' = nread + 1

\* C1: an entry whose cleaned relative name still has a ".." segment, whatever
\* its type, creates or changes nothing at or below the root (no parent
\* directory either), returns no error, and the loop goes on to the next entry.
C1_DotDotCreatesNothing ==
    [][(EntryStep /\ header'.DotDot)
          => (fs' = fs /\ touched' = touched /\ xerr' = "nil" /\ xpc' = "reading")]_vars

\* C1 witness: a ".." entry has been processed after something was extracted
C1_Witness ==
    header.DotDot /\ nread = 2 /\ touched # {} /\ xpc = "reading"

\* C2: whatever the names of the entries processed, every path SafeExtract
\* created, truncated or chmod-ed is the root or begins with root + separator,
\* and everything outside the root is as it was.
C2_NoEscape ==
    /\ \A p \in touched : InsideRoot(p)
    /\ \A q \in DOMAIN HostFs : q \in DOMAIN fs
    /\ \A q \in DOMAIN fs :
          ~AtOrBelowRoot(q) => (q \in DOMAIN HostFs /\ fs[q] = HostFs[q])

\* C2 witness: files were written and a hostile name has just been processed
C2_Witness ==
    /\ header.DotDot
    /\ \E p \in touched : p # dstDir /\ InsideRoot(p)
    /\ nread = 2

\* C3: a symlink, hard link, character device, block device or FIFO entry
\* creates nothing and returns no error, and leaves all that later entries
\* depend on (the tree, the loop, the reader) as if it had not been there.
C3_RejectedTypesSkipped ==
    [][(EntryStep /\ header'.Typeflag \in RejectedTypes)
          => (/\ fs' = fs
              /\ touched' = touched
              /\ wrote' = wrote
              /\ xerr' = "nil"
              /\ xpc' = "reading"
              /\ unreadTrunc' = unreadTrunc)]_vars

\* C3 witness: after a file was extracted a rejected type was read, the loop still runs
C3_Witness ==
    /\ header.Typeflag \in RejectedTypes
    /\ nread = 2
    /\ wrote # EmptyFn
    /\ xpc = "reading"

\* C4: every object at or below the root is a regular file or a directory, and
\* an entry whose type flag is neither regular file nor directory (the
\* rejected types and every other flag) creates nothing.
C4_OnlyFilesAndDirs ==
    /\ [](\A q \in DOMAIN fs : AtOrBelowRoot(q) => fs[q].kind \in {"file", "dir"})
    /\ [][(EntryStep /\ header'.Typeflag \notin {TypeReg, TypeDir})
             => (fs' = fs /\ touched' = touched)]_vars

\* C4 witness: an entry of a type that is not among the rejected ones was read
C4_Witness ==
    /\ header.Typeflag \in OtherTypes
    /\ ~header.DotDot
    /\ \E q \in DOMAIN fs : AtOrBelowRoot(q) /\ fs[q].kind = "file"

\* the relative paths an archive declares, with the directories they imply
ImpliedPaths(paths) == UNION {Prefixes(q) : q \in paths} \cup {<<>>}

\* the relative path of an object at or below the root
RelPath(q) == SubSeq(q, Len(RootSegs) + 1, Len(q))

\* C5: for an archive of regular files and directories none of whose cleaned
\* names has a ".." segment, extraction followed by the readability pass leaves
\* exactly the declared paths (with the directories they imply), every file
\* with its entry's length (the cap if larger) and permission bits within
\* (declared mode AND 0755) OR owner-read.
C5_RoundTrip ==
    (xpc = "readable" /\ plain) =>
        /\ {RelPath(q) : q \in {x \in DOMAIN fs : AtOrBelowRoot(x)}}
              = ImpliedPaths(DOMAIN decl)
        /\ \A q \in DOMAIN decl :
              /\ (RootSegs \o q) \in DOMAIN fs
              /\ fs[RootSegs \o q].kind = decl[q].kind
              /\ decl[q].kind = "file" =>
                    /\ fs[RootSegs \o q].size = Min(decl[q].Size, maxFileSize)
                    /\ BitSubset(fs[RootSegs \o q].perm,
                                 BitOr(BitAnd(decl[q].Mode, \o755), \o400))

\* the object a full path string names
FileAt(p) == fs[Resolve(p)]

\* C6: a regular-file entry whose body is longer than the cap leaves a file of
\* exactly the cap (no file SafeExtract writes is ever longer), extractFile
\* returns no error for it, and when the stream holds the whole body the loop
\* goes on at the next header with the excess skipped.
C6_SizeCap ==
    /\ [](\A p \in DOMAIN wrote : FileAt(p).size <= maxFileSize)
    /\ [][(EntryStep /\ opened' # <<>> /\ header'.Avail > maxFileSize)
             => (/\ fs'[Resolve(opened')].size = maxFileSize
                 /\ wrote'[opened'].done
                 /\ xerr' = "nil"
                 /\ xpc' = "reading"
                 /\ (header'.Avail = header'.Size => ~unreadTrunc'))]_vars

\* C6 witness: a file cut at the cap, and a later entry extracted in full
C6_Witness ==
    \E p, q \in DOMAIN wrote :
        /\ p # q
        /\ wrote[p].Size > maxFileSize
        /\ FileAt(p).size = maxFileSize
        /\ opened = q
        /\ wrote[q].done
        /\ FileAt(q).size = wrote[q].Size

\* C7: once the reader has met a malformed header or an early end of a body,
\* SafeExtract has returned a non-nil error and no further entry is processed;
\* a body that ends early is never followed by another entry or by a nil
\* return; SafeExtract returns nil only at a clean end of the archive.
C7_CorruptStreamFatal ==
    /\ [](corrupt => (xpc = "failed" /\ xerr # "nil"))
    /\ []((header.Avail < header.Size) => xpc \in {"reading", "failed"})
    /\ []((xpc \in {"extracted", "readable"}) => (xerr = "nil" /\ ~corrupt))
    /\ [][(corrupt \/ header.Avail < header.Size)
             => (fs' = fs /\ nread' = nread /\ touched' = touched)]_vars

\* C7 witness: a body ended early after an earlier entry was extracted, and
\* SafeExtract has returned the error
C7_Witness ==
    /\ header.Avail < header.Size
    /\ nread = 2
    /\ corrupt
    /\ xpc = "failed"
    /\ xerr # "nil"

\* C8 as stated: every regular file SafeExtract has opened carries exactly
\* (declared mode AND 0755) once SafeExtract is through with it.
C8_FinalModeOfEveryFile ==
    (xpc \in {"reading", "extracted", "failed"}) =>
        \A p \in DOMAIN wrote : FileAt(p).perm = BitAnd(wrote[p].Mode, \o755)

\* C8 amended: a regular file whose entry extractFile copied without error
\* carries exactly (declared mode AND 0755); every file SafeExtract opened,
\* the ones whose body ended early included, carries no setuid, setgid or
\* sticky bit and no group-write or other-write bit.
C8_FinalModeOfCopiedFiles ==
    (xpc \in {"reading", "extracted", "failed"}) =>
        \A p \in DOMAIN wrote :
            /\ wrote[p].done => FileAt(p).perm = BitAnd(wrote[p].Mode, \o755)
            /\ BitSubset(FileAt(p).perm, \o755)

\* C8 witness: a file declared setuid, world-writable and executable was extracted
C8_Witness ==
    \E p \in DOMAIN wrote :
        /\ wrote[p].done
        /\ wrote[p].Mode = \o7777
        /\ FileAt(p).perm = \o755

----------------------------------------------------------------------------
(* Properties of the tool runners and the orchestration, checked under Spec *)

\* the fan-out has been joined: g.Wait() has returned
Joined == rpc \in {"score", "report"}

\* C9: once the fan-out is joined, s.results.Tools holds a ToolResult for
\* exactly the tools enabled in the options, and every runner returned nil.
C9_OneResultPerEnabledTool ==
    Joined =>
        /\ DOMAIN tools = Enabled(opts)
        /\ \A t \in Enabled(opts) : ret[t] = "nil"

\* the tool's process exited with status zero and its deadline had not
\* elapsed at that moment
ExitedZeroInTime(t) == atExit[t].how = "exit0" /\ atExit[t].ctxErr # "deadline"

\* the tool's process exited non-zero or could not be started, and its
\* deadline had not elapsed at that moment
FailedInTime(t) == atExit[t].how \in {"exitN", "nostart"} /\ atExit[t].ctxErr # "deadline"

\* C10: a recorded Status is ok exactly when the process exited zero before
\* the tool's deadline, judged when the process exits, and failed when the
\* process exited non-zero or could not be started.
C10_StatusJudgedAtExit ==
    \A t \in DOMAIN tools :
        /\ tools[t].Status = "ok" <=> ExitedZeroInTime(t)
        /\ FailedInTime(t) => tools[t].Status = "failed"


\* the deadline of t's context elapses in this step
DeadlineStep(t) == tctx[t] = "nil" /\ tctx'[t] = "deadline"

\* C11: when a tool's deadline elapses while its process is running, the
\* process is killed in that step; no process runs once its result is
\* recorded; a process killed by the deadline is recorded as timeout; and
\* Status timeout is recorded only when the tool's own deadline elapsed.
C11_DeadlineKillsAndTimeout ==
    /\ [][\A t \in ToolNames :
              (DeadlineStep(t) /\ proc[t] = "running") => proc'[t] = "killed"]_vars
    /\ [](\A t \in DOMAIN tools :
              /\ proc[t] # "running"
              /\ (atExit[t].how = "killed" /\ atExit[t].ctxErr = "deadline")
                    => tools[t].Status = "timeout"
              /\ tools[t].Status = "timeout" => tctx[t] = "deadline")

\* C11 witness: a process killed by its deadline has been recorded as timeout
C11_Witness ==
    \E t \in DOMAIN tools :
        /\ atExit[t] = [how |-> "killed", ctxErr |-> "deadline"]
        /\ proc[t] = "killed"
        /\ tools[t].Status = "timeout"

\* calculateScore has run
Aggregated == rpc \in {"report", "done"} /\ results.Status # ""

\* at least one tool is enabled and every enabled tool has a ToolResult
\* whose Status is failed or timeout
AllEnabledNonOk ==
    /\ Enabled(opts) # {}
    /\ DOMAIN tools = Enabled(opts)
    /\ \A t \in DOMAIN tools : tools[t].Status \in {"failed", "timeout"}

\* C12: when every enabled tool ended failed or timeout, the result has
\* Status ERROR and Run returns a non-nil error.
C12_AllFailedIsError ==
    (rpc = "done" /\ Aggregated /\ AllEnabledNonOk)
        => (results.Status = "ERROR" /\ runErr # "nil")

\* Run could not proceed: the working area, the acquisition or the extraction failed
PipelineFailed == runErr \in {"workdir", "rootfs", "pull/extract"}

\* C13: Run returns a non-nil error only if the pipeline could not proceed or
\* every enabled tool ended non-ok; otherwise, whatever the report step does,
\* it returns nil.
C13_ErrorOnlyWhenPipelineFailed ==
    (rpc = "done" /\ runErr # "nil") => (PipelineFailed \/ AllEnabledNonOk)

\* C14: whenever Run has returned, the working directory it created no longer exists.
C14_WorkDirRemoved == rpc = "done" => workDir # "exists"

\* C14 witness: Run has returned from a cancelled scan whose tools had been
\* started, and the working directory it made is gone
C14_Witness ==
    /\ rpc = "done"
    /\ ctxDone
    /\ DOMAIN tools # {}
    /\ workDir = "removed"

\* the version probe of t is running: the runner calls it as soon as the
\* analysis command, which did run, has returned
ProbeRunning(t) == tpc[t] = "exited" /\ proc[t] \in {"exit0", "exitN", "killed"}

\* C15: the step that cancels the scan terminates every external process
\* running at that moment, the analysis commands and the version probes; and
\* once Run has returned no such process runs and the working area is removed.
C15_CancelTerminatesAll ==
    /\ [][(~ctxDone /\ ctxDone')
             => \A t \in ToolNames :
                    /\ proc[t] = "running" => proc'[t] = "killed"
                    /\ ProbeRunning(t) => tpc'[t] # "exited"]_vars
    /\ [](rpc = "done"
             => /\ \A t \in ToolNames : proc[t] # "running" /\ ~ProbeRunning(t)
                /\ workDir # "exists")

\* C16: aggregation starts only when every runner started has returned; from
\* then on no ToolResult is written; and the Status, Score and Partial stored
\* are the ones computed from that complete set of results.
C16_JoinBeforeAggregation ==
    /\ []((rpc \in {"score", "report"} \/ Aggregated)
             => \A t \in Enabled(opts) : tpc[t] = "returned")
    /\ [][(rpc \in {"score", "report", "done"}) => tools' = tools]_vars
    /\ [](Aggregated => results = calculateScore(tools, NoResults))

\* C16 witness: the three runners ended ok, failed and timeout and the
\* result was aggregated
C16_Witness ==
    /\ Aggregated
    /\ DOMAIN tools = ToolNames
    /\ tools["trivy"].Status = "failed"
    /\ tools["malcontent"].Status = "ok"
    /\ tools["magika"].Status = "timeout"
    /\ results.Status = "WARN"

\* the points of the scoring table for the counts c
Points(c) ==
    10 * c.critical + 5 * c.high + 2 * c.medium + c.low + 20 * c.secrets
        + 15 * c.behaviourHigh + 7 * c.behaviourMedium + 5 * c.suspicious

\* the points of the findings of tool t if it ended ok
PointsOf(t) ==
    IF t \in DOMAIN tools /\ tools[t].Status = "ok" THEN Points(findings[t]) ELSE 0

\* C17: after aggregation Score.Total is the sum of the table's points over
\* the findings of the tools that ended ok.
C17_TotalIsWeightedSum ==
    Aggregated
        => results.Total = PointsOf("trivy") + PointsOf("malcontent") + PointsOf("magika")

\* the grade of the threshold table
GradeOf(t) ==
    IF t \in 0..10 THEN "A"
    ELSE IF t \in 11..30 THEN "B"
    ELSE IF t \in 31..60 THEN "C"
    ELSE IF t \in 61..100 THEN "D"
    ELSE "F"

\* C18: for every total t >= 0 the grade stored is the one of the threshold
\* table for t, whatever the tool statuses and Partial, and the total stored
\* is not negative.
C18_GradeTable ==
    results.Grade # "" => (results.Total >= 0 /\ results.Grade = GradeOf(results.Total))

\* C18 witness: a total just above a threshold was graded, in a partial
\* result whose tools all failed
C18_Witness ==
    /\ results.Total = 31
    /\ results.Grade = "C"
    /\ results.Partial
    /\ tools = ToolsAll("failed")

\* the Status of the decision table, with the enabled tools taken from the options
StatusOf(o, tr, res) ==
    IF Enabled(o) # {} /\ ~\E t \in DOMAIN tr : tr[t].Status = "ok" THEN "ERROR"
    ELSE IF res.Total > 100 THEN "FAIL"
    ELSE IF res.Total > 30 \/ res.Partial THEN "WARN"
    ELSE "PASS"

\* C19: after aggregation Status is the one of the decision table: ERROR if
\* a tool is enabled in the options and none reached ok, else FAIL above 100,
\* else WARN above 30 or when partial, else PASS.
C19_StatusTable == Aggregated => results.Status = StatusOf(opts, tools, results)

\* an enabled tool's ToolResult has Status failed or timeout
Degraded ==
    \E t \in Enabled(opts) : t \in DOMAIN tools /\ tools[t].Status \in {"failed", "timeout"}

CodeOf == [PASS |-> 0, WARN |-> 1, FAIL |-> 2, ERROR |-> 3]

C22_ExitCodeTable ==
    /\ Aggregated => results.Status \in DOMAIN CodeOf
    /\ (Aggregated /\ exitCode # <<>>) => exitCode = <<CodeOf[results.Status]>>

\* C22 witness: s.ExitCode() returned 2 for a FAIL result
C22_Witness ==
    /\ results.Status = "FAIL"
    /\ exitCode = <<2>>

\* C23: in a result that is not partial and not ERROR, grades A and B go
\* with PASS, C and D with WARN and F with FAIL.
C23_StatusFollowsGrade ==
    (Aggregated /\ ~results.Partial /\ results.Status # "ERROR")
        => results.Status = IF results.Grade \in {"A", "B"} THEN "PASS"
                            ELSE IF results.Grade \in {"C", "D"} THEN "WARN"
                            ELSE "FAIL"

\* C23 witness: a complete result with grade D and Status WARN
C23_Witness ==
    /\ Aggregated
    /\ ~results.Partial
    /\ results.Grade = "D"
    /\ results.Status = "WARN"
    /\ tools = ToolsAll("ok")


\* the container-engine commands that never run the image
PassiveOps == {"pull", "inspect", "create", "export", "rm"}

\* C24: the only container-engine commands issued for the image are pull,
\* inspect, create, export and rm; the container is never started or executed.
C24_ImageNeverRun == engine \subseteq PassiveOps

\* C24 witness: a scan whose tools ran has returned with the five commands issued
C24_Witness ==
    /\ rpc = "done"
    /\ DOMAIN tools # {}
    /\ engine = PassiveOps

\* C25: a failed or timeout ToolResult has a non-empty Error; an ok ToolResult
\* has a non-empty OutputFile and an empty Error.
C25_DiagnosticsAndOutput ==
    \A t \in DOMAIN tools :
        /\ tools[t].Status \in {"failed", "timeout"} => tools[t].Error # ""
        /\ tools[t].Status = "ok" => (tools[t].OutputFile # "" /\ tools[t].Error = "")

\* in this step t's runner returns an error, its deadline elapses, or its
\* command fails or cannot be started
RunnerTrouble(t) ==
    \/ ret[t] # "error" /\ ret'[t] = "error"
    \/ DeadlineStep(t)
    \/ proc'[t] # proc[t] /\ proc'[t] \in {"exitN", "nostart"}

\* C27: a step in which one runner errs, fails or times out leaves every
\* other runner's process, context and position as they were; and a process
\* is killed by a cancellation only when the scan itself was cancelled.
C27_RunnersIndependent ==
    /\ [][\A t \in ToolNames :
              RunnerTrouble(t)
                  => \A u \in ToolNames \ {t} :
                         proc'[u] = proc[u] /\ tctx'[u] = tctx[u] /\ tpc'[u] = tpc[u]]_vars
    /\ [](\A t \in ToolNames :
              (atExit[t].how = "killed" /\ atExit[t].ctxErr = "canceled") => ctxDone)

\* C30: a tool's program is invoked only if the tool is enabled and at most
\* once; once its ToolResult is recorded the program is not invoked again
\* and the ToolResult does not change.
C30_NoRetry ==
    /\ [][\A t \in ToolNames :
              /\ proc'[t] # proc[t] => (t \in Enabled(opts) /\ proc'[t] # "none")
              /\ (proc'[t] # proc[t] /\ proc'[t] \in {"running", "nostart"}) => proc[t] = "none"]_vars
    /\ [][\A t \in DOMAIN tools :
              /\ t \in DOMAIN tools'
              /\ tools'[t] = tools[t]
              /\ proc'[t] = proc[t]]_vars
    /\ [](\A t \in ToolNames \ Enabled(opts) : proc[t] = "none" /\ t \notin DOMAIN tools)

\* C30 witness: Run has returned, trivy was disabled and never invoked, and
\* malcontent failed after being started once
C30_Witness ==
    /\ rpc = "done"
    /\ opts.SkipTrivy
    /\ proc["trivy"] = "none"
    /\ proc["malcontent"] = "exitN"
    /\ tools["malcontent"].Status = "failed"


\* the runner is between s.mu.Lock() and s.mu.Unlock()
InCritical(t) == tpc[t] \in {"locked", "stored"}

\* C29: a runner between Lock and Unlock holds the mutex, so at most one is
\* there at a time; every write to the map is made by the holder, adds the
\* holder's own key, which was not there before, and leaves the other keys
\* as they were.
C29_MapWritesSerialized ==
    /\ [](\A t \in ToolNames : InCritical(t) => mu = t)
    /\ [][tools' # tools
             => \E t \in ToolNames :
                    /\ mu = t
                    /\ tpc[t] = "locked"
                    /\ t \notin DOMAIN tools
                    /\ DOMAIN tools' = DOMAIN tools \cup {t}
                    /\ \A u \in DOMAIN tools : tools'[u] = tools[u]]_vars

\* C29 witness: trivy holds the mutex with its result stored, magika has
\* stored its own before, and malcontent waits for the mutex
C29_Witness ==
    /\ mu = "trivy"
    /\ tpc["trivy"] = "stored"
    /\ tpc["malcontent"] = "probed"
    /\ tpc["magika"] = "returned"
    /\ DOMAIN tools = {"trivy", "magika"}


\* C26: once extraction has failed with `docker export` blocked on the pipe,
\* Run eventually returns the pipeline error, with no tool started and the
\* working area removed, without a cancellation from outside.
C26_ReturnsAfterFatalExtraction ==
    (rpc = "exportwait")
        ~> (/\ rpc = "done"
            /\ runErr = "pull/extract"
            /\ \A t \in ToolNames : proc[t] = "none"
            /\ workDir = "removed")

\* C28: every runner that was started eventually returns, and Run with it,
\* whether or not the tool's program ever exits by itself.
C28_RunnersTerminate ==
    /\ \A t \in ToolNames : (tpc[t] # "idle") ~> (tpc[t] = "returned")
    /\ (rpc = "wait") ~> (rpc = "done")


\* this step is the readability pass
ReadabilityStep == xpc = "extracted" /\ xpc' = "readable"

\* C33: the readability pass adds and removes no object and changes no kind
\* or size; outside the root nothing changes; under the root a file ends
\* with owner-read and every other bit as before, a directory with
\* owner-read and owner-execute and every other bit as before.
C33_OnlyOwnerBitsWidened ==
    [][ReadabilityStep
          => /\ DOMAIN fs' = DOMAIN fs
             /\ \A q \in DOMAIN fs :
                    /\ fs'[q].kind = fs[q].kind
                    /\ fs'[q].size = fs[q].size
                    /\ ~AtOrBelowRoot(q) => fs'[q] = fs[q]
                    /\ fs[q].kind \notin {"file", "dir"} => fs'[q] = fs[q]
                    /\ (AtOrBelowRoot(q) /\ fs[q].kind = "file")
                          => /\ BitAnd(fs'[q].perm, \o400) = \o400
                             /\ BitAnd(fs'[q].perm, \o7377) = BitAnd(fs[q].perm, \o7377)
                    /\ (AtOrBelowRoot(q) /\ fs[q].kind = "dir")
                          => /\ BitAnd(fs'[q].perm, \o500) = \o500
                             /\ BitAnd(fs'[q].perm, \o7277) = BitAnd(fs[q].perm, \o7277)]_vars

\* C33 witness: after the pass, a file extracted with no permission at all
\* has owner-read and nothing else
C33_Witness ==
    /\ xpc = "readable"
    /\ \E p \in DOMAIN wrote :
          /\ wrote[p].done
          /\ wrote[p].Mode = 0
          /\ FileAt(p).perm = \o400

\* C34: SafeExtract fails only on a stream that is corrupt or cut short.
C34_WellFormedNeverFails == xpc = "failed" => corrupt

\* the entry of this step is a directory or regular-file entry with an accepted path
CreatingStep ==
    /\ EntryStep
    /\ header'.Typeflag \in {TypeDir, TypeReg}
    /\ target' # <<>>

\* C35: a directory entry whose path is a directory already returns no error
\* and leaves the tree as it is; a directory or file entry processed without
\* error leaves every ancestor of its path in place as a directory, the ones
\* that were missing made under the root.
C35_DirectoriesIdempotent ==
    /\ [][(/\ CreatingStep
            /\ header'.Typeflag = TypeDir
            /\ Resolve(target') \in DOMAIN fs
            /\ fs[Resolve(target')].kind = "dir")
             => (fs' = fs /\ xerr' = "nil")]_vars
    /\ [][(CreatingStep /\ xerr' = "nil")
             => /\ Resolve(target') \in DOMAIN fs'
                /\ \A a \in Prefixes(Resolve(target')) \ {Resolve(target')} :
                       /\ a \in DOMAIN fs'
                       /\ fs'[a].kind = "dir"
                       /\ a \notin DOMAIN fs => AtOrBelowRoot(a)]_vars

\* C35 witness: two directory entries for a/a, the first making a and a/a,
\* the second finding them
C35_Witness ==
    /\ nread = 2
    /\ header.Typeflag = TypeDir
    /\ xerr = "nil"
    /\ DOMAIN decl = {<<"a", "a">>}
    /\ target = dstDir \o <<SEP, "a", SEP, "a">>
    /\ Cardinality(touched) = 2


\* this step is the call of calculateScore
ScoreStep == rpc = "score" /\ rpc' = "report"

\* C36: whatever the order in which the tool map is visited, calculateScore
\* gives the Score, Grade, Status and Partial that were stored; the call
\* changes no ToolResult and no findings; and it always ends with one of the
\* four Status values.
C36_AggregationDeterministic ==
    /\ [](Aggregated
            => \A o \in Orders(DOMAIN tools) : calculateScoreIn(o, tools, NoResults) = results)
    /\ [][ScoreStep => (tools' = tools /\ findings' = findings)]_vars
    /\ [][ScoreStep => results'.Status \in {"PASS", "WARN", "FAIL", "ERROR"}]_vars

\* C36 witness: aggregation over three tools that did not all end alike
C36_Witness ==
    /\ Aggregated
    /\ DOMAIN tools = ToolNames
    /\ \E t, u \in ToolNames : tools[t].Status = "ok" /\ tools[u].Status # "ok"


\* the runner of t has been started
RunnerStarted(t) == tpc[t] # "idle" \/ proc[t] # "none" \/ t \in DOMAIN tools

\* C31: a tool runner is started only after SafeExtract has read the end of
\* the stream and returned nil, the export has ended, the readability pass
\* has run and pullAndExtract has returned; once extraction has failed no
\* runner is started.
C31_ToolsAfterExtraction ==
    /\ \A t \in ToolNames :
          RunnerStarted(t) => (xpc = "readable" /\ ~unreadTrunc /\ rpc \in {"wait", "score", "report", "done"})
    /\ xpc \in {"failed", "extracted"} => \A t \in ToolNames : ~RunnerStarted(t)

\* C31 witness: trivy is running on a tree extracted from two entries
C31_Witness ==
    /\ proc["trivy"] = "running"
    /\ xpc = "readable"
    /\ nread = 2
    /\ wrote # EmptyFn

\* pullAndExtract has returned an error before it set up the export
AcquisitionFailed == engine # {} /\ "export" \notin engine /\ rpc # "pull"

\* C32: when pull, inspect or create has failed, Run has returned the
\* pipeline error: no entry was read, nothing was written under the rootfs
\* directory, no runner was started, no ToolResult recorded, and the process
\* exits with 1 if it has exited.
C32_AcquisitionFailureAborts ==
    AcquisitionFailed
        => /\ rpc = "done"
           /\ runErr = "pull/extract"
           /\ xpc = "reading"
           /\ nread = 0
           /\ fs = HostFs
           /\ touched = {}
           /\ tools = EmptyFn
           /\ results = NoResults
           /\ \A t \in ToolNames : ~RunnerStarted(t)
           /\ osExit \in {<<>>, <<1>>}

\* C32 witness: the process has exited after `docker inspect` failed
C32_Witness ==
    /\ engine = {"pull", "inspect"}
    /\ rpc = "done"
    /\ osExit = <<1>>

\* the container exists: `docker create` succeeded and the export was set up
ContainerCreated == "export" \in engine

\* C37: once pullAndExtract has returned with the container created, a
\* `docker rm` of it has been issued, whichever way it returned.
C37_ContainerRemoved ==
    (PullAndExtractAtRest /\ ContainerCreated) => "rm" \in engine

\* C37 witness: Run has returned the error of an extraction that ended when
\* the scan was cancelled, and the container has been removed
C37_Witness ==
    /\ rpc = "done"
    /\ runErr = "pull/extract"
    /\ ctxDone
    /\ xpc \in {"failed", "extracted"}
    /\ engine = PassiveOps

====
